---- MODULE Spec2Model ----
(***************************************************************************)
(* Model of the reedline-repl-rs command loop (src/src/repl.rs): the line  *)
(* tokenizer, the dispatch of one line (handle_command and its async       *)
(* twin), the post-command hooks, the error handler and the run loops.     *)
(* Strings of the program are sequences of one-character strings, so that  *)
(* trimming and shell-style splitting are computed, not assumed.           *)
(***************************************************************************)
EXTENDS Integers, Sequences, FiniteSets, TLC

(***************************************************************************)
(* Bounds of the model                                                     *)
(***************************************************************************)
MaxLineLen == 2   \* lines typed at the editor: every string over Alphabet up to this length
MaxInit == 2      \* number of pre-seeded init lines
MaxRegs == 2      \* number of with_command / with_command_async calls

(***************************************************************************)
(* Characters and the strings the code spells out                          *)
(***************************************************************************)
Space == " "
DQuote == "\""
SQuote == "'"
Backslash == "\\"
Hash == "#"

Help == <<"h", "e", "l", "p">>
Exit == <<"e", "x", "i", "t">>
CmdA == <<"a">>
CmdAA == <<"a", "a">>

Alphabet == {"a", Space, DQuote}

RECURSIVE StringsUpTo(_)
StringsUpTo(n) ==
  IF n = 0 THEN {<<>>}
  ELSE LET shorter == StringsUpTo(n - 1)
       IN shorter \cup {Append(s, c) : s \in {t \in shorter : Len(t) = n - 1}, c \in Alphabet}

\* longer lines, and lines that need characters outside Alphabet
FixedLines ==
  { Exit, Help,
    <<"b">>,
    <<"a", Space, "a">>,
    <<"a", Space, "a", Space, "a">>,
    <<DQuote, "a", DQuote, Space, "a">>,
    <<Space>> \o Exit \o <<Space>>,
    Exit \o <<Space, "a">>,
    Help \o <<Space, "a">>,
    Help \o <<Space, "b">>,
    <<Hash, "a">>,
    <<"a", Backslash>>,
    <<SQuote, "a">>,
    <<"a", Space, DQuote, "a", Space, "a", DQuote>>,
    <<"a", Space, DQuote, "a", Space, "a">> }

Lines == StringsUpTo(MaxLineLen) \cup FixedLines

InitLines == { Exit, <<"a", Space, "a">>, <<"a">>, <<"b">> }

\* the Context is opaque to the Repl: its initial value and one other value
Ctx == {"c0", "c1"}
DefaultName == <<"r", "e", "p", "l">>
InitialPrompt == <<"r", "e", "p", "l", ">", " ">>
HookPrompt == <<"p", "1">>
AsyncHookPrompt == <<"p", "2">>

(***************************************************************************)
(* str::trim                                                               *)
(***************************************************************************)
RECURSIVE TrimStart(_)
TrimStart(s) == IF s # <<>> /\ Head(s) = Space THEN TrimStart(Tail(s)) ELSE s

RECURSIVE TrimEnd(_)
TrimEnd(s) ==
  IF s # <<>> /\ s[Len(s)] = Space THEN TrimEnd(SubSeq(s, 1, Len(s) - 1)) ELSE s

\* the line as it is
Trim_Kept(s) == s

Trim(s) == TrimEnd(TrimStart(s))

(***************************************************************************)
(* shlex::split, as called by parse_line.  i is the index of the next      *)
(* unread character, acc the word built so far.                            *)
(***************************************************************************)
\* inside double quotes a backslash escapes only $ " \ (and the backquote,
\* which no line of the model contains)
RECURSIVE ParseDouble(_, _, _)
ParseDouble(line, i, acc) ==
  IF i > Len(line) THEN [ok |-> FALSE, word |-> acc, next |-> i]
  ELSE IF line[i] = DQuote THEN [ok |-> TRUE, word |-> acc, next |-> i + 1]
  ELSE IF line[i] = Backslash
    THEN IF i + 1 > Len(line) THEN [ok |-> FALSE, word |-> acc, next |-> i + 1]
         ELSE IF line[i + 1] \in {"$", DQuote, Backslash}
           THEN ParseDouble(line, i + 2, Append(acc, line[i + 1]))
           ELSE ParseDouble(line, i + 2, acc \o <<Backslash, line[i + 1]>>)
  ELSE ParseDouble(line, i + 1, Append(acc, line[i]))

RECURSIVE ParseSingle(_, _, _)
ParseSingle(line, i, acc) ==
  IF i > Len(line) THEN [ok |-> FALSE, word |-> acc, next |-> i]
  ELSE IF line[i] = SQuote THEN [ok |-> TRUE, word |-> acc, next |-> i + 1]
  ELSE ParseSingle(line, i + 1, Append(acc, line[i]))

RECURSIVE ParseWord(_, _, _)
ParseWord(line, i, acc) ==
  IF i > Len(line) THEN [ok |-> TRUE, word |-> acc, next |-> i]
  ELSE IF line[i] = DQuote
    THEN LET r == ParseDouble(line, i + 1, acc)
         IN IF r.ok THEN ParseWord(line, r.next, r.word) ELSE r
  ELSE IF line[i] = SQuote
    THEN LET r == ParseSingle(line, i + 1, acc)
         IN IF r.ok THEN ParseWord(line, r.next, r.word) ELSE r
  ELSE IF line[i] = Backslash
    THEN IF i + 1 > Len(line) THEN [ok |-> FALSE, word |-> acc, next |-> i + 1]
         ELSE ParseWord(line, i + 2, Append(acc, line[i + 1]))
  ELSE IF line[i] = Space THEN [ok |-> TRUE, word |-> acc, next |-> i + 1]
  ELSE ParseWord(line, i + 1, Append(acc, line[i]))

\* skip blanks and a comment before a word; a line has no newline, so a
\* comment runs to its end
RECURSIVE SkipBlank(_, _)
SkipBlank(line, i) ==
  IF i > Len(line) THEN i
  ELSE IF line[i] = Space THEN SkipBlank(line, i + 1)
  ELSE IF line[i] = Hash THEN Len(line) + 1
  ELSE i

RECURSIVE ShlexWords(_, _, _)
ShlexWords(line, i, words) ==
  LET j == SkipBlank(line, i)
  IN IF j > Len(line) THEN [some |-> TRUE, words |-> words]
     ELSE LET r == ParseWord(line, j, <<>>)
          IN IF r.ok THEN ShlexWords(line, r.next, Append(words, r.word))
             ELSE [some |-> FALSE, words |-> <<>>]

\* Option<Vec<String>>: some = FALSE is None
ShlexSplit(line) == ShlexWords(line, 1, <<>>)

(***************************************************************************)
(* Repl::parse_line: split, print the debug line, drain the first word.    *)
(* Vec::drain(..1) panics on an empty vector.                              *)
(***************************************************************************)
ParseLine(line) ==
  LET split == ShlexSplit(line)
      args == IF split.some THEN split.words ELSE <<>>
  IN [ printed |-> <<"stdout", "new", args>>,
       panic |-> args = <<>>,
       command |-> IF args = <<>> THEN <<>> ELSE Head(args),
       args |-> IF args = <<>> THEN <<>> ELSE Tail(args) ]

(***************************************************************************)
(* The Repl                                                                *)
(***************************************************************************)
VARIABLES
  variant,                      \* entry point the host calls: "run" | "run_async"
  commands,                     \* Repl.commands: name -> ReplCommand
  after_command_callback,       \* Repl.after_command_callback is Some
  after_command_callback_async, \* Repl.after_command_callback_async is Some
  error_handler,                \* "default" | "custom"
  stop_on_ctrl_c,               \* Repl.stop_on_ctrl_c
  stop_on_ctrl_d,               \* Repl.stop_on_ctrl_d
  init_commands,                \* Repl.init_commands, popped from the end
  prompt,                       \* Repl.prompt prefix
  context,                      \* Repl.context
  pc,                           \* "ready" | "loop" | "returned_ok" | "returned_err" | "panicked"
  last,                         \* what the latest loop iteration did
  virtual_terminal_processing,  \* the terminal's virtual terminal processing is switched on
  registered,                   \* the builder calls made so far, e.g. <<name, kind, callback>>
  supplied,                     \* the slice handed to with_init_commands
  step,                         \* the line being dispatched and what its dispatch does
  calls,                        \* the calls of that dispatch begun so far, and those not yet settled
  comp,                         \* a call of the completer: its line, its cursor, what it returned
  param,                        \* a Parameter under construction and what the latest builder call returned
  repl_name                     \* Repl.name

vars == << variant, commands, after_command_callback, after_command_callback_async,
           error_handler, stop_on_ctrl_c, stop_on_ctrl_d, init_commands, prompt,
           context, pc, last, registered, supplied, step, calls, comp, param, repl_name,
           virtual_terminal_processing >>

\* what the builder calls made, which the run loop only reads
built == << registered, supplied >>

config == << variant, commands, after_command_callback, after_command_callback_async,
             error_handler, stop_on_ctrl_d, built, step, calls, comp, param, repl_name >>

\* ReplCommand::new / new_async; the clap schema is the number of required
\* and of declared positional parameters, id the callback function stored
SyncCommand(required, params) ==
  [callback |-> TRUE, async_callback |-> FALSE, required |-> required, params |-> params,
   id |-> "f"]

AsyncCommand(required, params) ==
  [callback |-> FALSE, async_callback |-> TRUE, required |-> required, params |-> params,
   id |-> "f"]

Registries ==
  { (CmdA :> SyncCommand(1, 1)) @@ (CmdAA :> AsyncCommand(0, 0)),
    (CmdA :> SyncCommand(1, 1)) @@ (Exit :> SyncCommand(0, 0)) @@ (Help :> SyncCommand(0, 0)) }

RECURSIVE SeqsUpTo(_, _)
SeqsUpTo(S, n) ==
  IF n = 0 THEN {<<>>}
  ELSE LET shorter == SeqsUpTo(S, n - 1)
       IN shorter \cup {Append(q, x) : q \in {t \in shorter : Len(t) = n - 1}, x \in S}

\* a slice stored as it was supplied
Reverse_Kept(q) == q

Reverse(q) == [k \in 1..Len(q) |-> q[Len(q) + 1 - k]]

\* clap's try_get_matches_from_mut on the positional schema of the model
TryGetMatches(definition, args) ==
  Len(args) >= definition.required /\ Len(args) <= definition.params

\* what a host callback can do: return Ok(Some(text)), Ok(None) or Err(e),
\* having written the Context it was lent
CallbackOutcomes == [res : {"some", "none", "err"}, ctx : Ctx]
CallbackText == <<"x">>
CallbackError == <<"CallbackError", <<"E">>>>

\* what a post-command hook can do
HookOutcomes == [res : {"some", "none", "err"}, ctx : Ctx]

\* the mutable part of the Repl threaded through the dispatch of one line
Begin ==
  [context |-> context, prompt |-> prompt, stop_on_ctrl_c |-> stop_on_ctrl_c,
   ev |-> <<>>, result |-> "Ok", err |-> <<>>]

\* the threaded state before anything was done
Begin0 ==
  [context |-> "c0", prompt |-> InitialPrompt, stop_on_ctrl_c |-> FALSE,
   ev |-> <<>>, result |-> "Ok", err |-> <<>>]

Emit(m, e) == [m EXCEPT !.ev = Append(@, e)]

Panic(m, msg) == [Emit(m, <<"panic", msg>>) EXCEPT !.result = "panic"]

Fail(m, e) == [m EXCEPT !.result = "Err", !.err = e]

(***************************************************************************)
(* Dispatch of one line.  Every operator maps the threaded state to the    *)
(* set of states the code can leave, one per behaviour of the host code    *)
(* it calls.                                                               *)
(***************************************************************************)
ExecuteAfterCommandCallback_Skipped(m) == {m}

ExecuteAfterCommandCallback(m) ==
  IF after_command_callback
  THEN { LET called == [Emit(m, <<"hook", "sync", h.res>>) EXCEPT !.context = h.ctx]
         IN CASE h.res = "some" -> [called EXCEPT !.prompt = HookPrompt]
              [] h.res = "none" -> called
              [] h.res = "err" -> Emit(called, <<"stderr", "hook_failed">>)
         : h \in HookOutcomes }
  ELSE {m}

ExecuteAfterCommandCallbackAsync(m) ==
  UNION { IF after_command_callback_async
          THEN { LET called == [Emit(m1, <<"hook", "async", h.res>>) EXCEPT !.context = h.ctx]
                 IN CASE h.res = "some" -> [called EXCEPT !.prompt = AsyncHookPrompt]
                      [] h.res = "none" -> called
                      [] h.res = "err" -> Emit(called, <<"stderr", "hook_failed">>)
                 : h \in HookOutcomes }
          ELSE {m1}
        : m1 \in ExecuteAfterCommandCallback(m) }

\* a help that rewrites the prompt
ShowHelp_NewPrompt(m, args) == [m EXCEPT !.prompt = HookPrompt]

ShowHelp(m, args) ==
  IF args = <<>> THEN Emit(m, <<"stdout", "help", DOMAIN commands>>)
  ELSE IF args[1] \in DOMAIN commands THEN Emit(m, <<"stdout", "help_command", args[1]>>)
  ELSE Emit(m, <<"stderr", "help_not_found">>)

\* Err(err) => err.print(): clap's usage diagnostic
UsageError(m) == Emit(m, <<"stderr", "usage">>)

\* the built-in exit: self.stop_on_ctrl_c = true
ExitBuiltin_FlagNotSet(m) == m

ExitBuiltin(m) == [m EXCEPT !.stop_on_ctrl_c = TRUE]

\* return Err(Error::UnknownCommand(command.to_string()).into())
UnknownCommand_Swallowed(m, command) == m

UnknownCommand(m, command) == Fail(m, <<"UnknownCommand", command>>)

\* the callback returned: print its value, or hand its error back
Returned(m, kind, command, cb) ==
  LET called == [Emit(m, <<"callback", kind, command, cb.res, commands[command].id>>)
                   EXCEPT !.context = cb.ctx]
  IN CASE cb.res = "some" -> Emit(called, <<"stdout", "value", CallbackText>>)
       [] cb.res = "none" -> called
       [] cb.res = "err" -> Fail(called, CallbackError)

HandleCommand(m, command, args) ==
  IF command \in DOMAIN commands
  THEN LET definition == commands[command]
       IN IF TryGetMatches(definition, args)
          THEN IF ~definition.callback
               THEN {Panic(m, "Must be filled for sync commands")}
               ELSE UNION { LET r == Returned(m, "sync", command, cb)
                            IN IF r.result = "Err" THEN {r}
                               ELSE ExecuteAfterCommandCallback(r)
                          : cb \in CallbackOutcomes }
          ELSE ExecuteAfterCommandCallback(UsageError(m))
  ELSE IF command = Help THEN {ShowHelp(m, args)}
  ELSE IF command = Exit THEN {ExitBuiltin(m)}
  ELSE {UnknownCommand(m, command)}

HandleCommandAsync(m, command, args) ==
  IF command \in DOMAIN commands
  THEN LET definition == commands[command]
       IN IF TryGetMatches(definition, args)
          THEN IF ~definition.async_callback /\ ~definition.callback
               THEN {Panic(m, "Either async or sync callback must be set")}
               ELSE UNION { LET r == Returned(m, IF definition.async_callback
                                                  THEN "async" ELSE "sync", command, cb)
                            IN IF r.result = "Err" THEN {r}
                               ELSE ExecuteAfterCommandCallbackAsync(r)
                          : cb \in CallbackOutcomes }
          ELSE ExecuteAfterCommandCallbackAsync(UsageError(m))
  ELSE IF command = Help THEN {ShowHelp(m, args)}
  ELSE IF command = Exit THEN {ExitBuiltin(m)}
  ELSE {UnknownCommand(m, command)}

ProcessLine(m, line) ==
  LET trimmed == Trim(line)
  IN IF trimmed # <<>>
     THEN LET parsed == ParseLine(trimmed)
              m1 == Emit(m, parsed.printed)
          IN IF parsed.panic THEN {Panic(m1, "drain")}
             ELSE HandleCommand(m1, parsed.command, parsed.args)
     ELSE {m}

ProcessLineAsync(m, line) ==
  LET trimmed == Trim(line)
  IN IF trimmed # <<>>
     THEN LET parsed == ParseLine(trimmed)
              m1 == Emit(m, parsed.printed)
          IN IF parsed.panic THEN {Panic(m1, "drain")}
             ELSE HandleCommandAsync(m1, parsed.command, parsed.args)
     ELSE {m}

(***************************************************************************)
(* The error handler: default_error_handler prints and returns Ok; a       *)
(* handler installed by the host returns what it likes.                    *)
(***************************************************************************)
ErrorHandlerOutcomes == IF error_handler = "default" THEN {"Ok"} ELSE {"Ok", "Err"}

CallErrorHandler(m, h) ==
  LET handled == Emit(m, <<"handler", m.err, h>>)
  IN IF error_handler = "default" THEN Emit(handled, <<"stderr", "error">>) ELSE handled

\* no line is being dispatched, no call has begun
NoStep == [src |-> "none", line |-> <<>>, m |-> Begin0]

NoCalls == [begun |-> 0, running |-> {}]

\* no Parameter is under construction
NoParam == [self |-> <<>>, call |-> <<>>, before |-> <<>>, result |-> <<>>]

\* the completer has not been called
NoComp == [line |-> <<>>, pos |-> 0, done |-> FALSE, panic |-> "", suggestions |-> <<>>]

(***************************************************************************)
(* Repl::run and Repl::run_async                                           *)
(***************************************************************************)
Init ==
  /\ variant \in {"run", "run_async"}
  /\ commands \in Registries
  /\ after_command_callback \in BOOLEAN
  /\ after_command_callback_async \in BOOLEAN
  /\ error_handler \in {"default", "custom"}
  /\ stop_on_ctrl_c \in BOOLEAN
  /\ stop_on_ctrl_d \in BOOLEAN
  /\ init_commands \in {Reverse(q) : q \in SeqsUpTo(InitLines, MaxInit)}
  /\ prompt = InitialPrompt
  /\ context = "c0"
  /\ pc = "ready"
  /\ last = [src |-> "none", line |-> <<>>, ev |-> <<>>]
  /\ registered = <<>>
  /\ supplied = <<>>
  /\ step = NoStep
  /\ calls = NoCalls
  /\ comp = NoComp
  /\ param = NoParam
  /\ repl_name = DefaultName
  /\ virtual_terminal_processing = FALSE

\* enable_virtual_terminal_processing() of the Windows build, which sets the
\* console mode; in other builds it and its counterpart are empty
EnableVirtualTerminalProcessing == virtual_terminal_processing' = TRUE

\* disable_virtual_terminal_processing()
DisableVirtualTerminalProcessing == virtual_terminal_processing' = FALSE

\* the statement after the loop is reached by break only: a return out of the
\* loop body (the ? operator) and a panic pass it by
AfterLoop(to) ==
  IF to = "returned_ok" THEN DisableVirtualTerminalProcessing
  ELSE UNCHANGED virtual_terminal_processing

\* the state a loop iteration leaves once the line's dispatch m has settled
Leave(src, line, m, to) ==
  /\ AfterLoop(to)
  /\ context' = m.context
  /\ prompt' = m.prompt
  /\ stop_on_ctrl_c' = m.stop_on_ctrl_c
  /\ pc' = to
  /\ last' = [src |-> src, line |-> line, ev |-> m.ev]
  /\ UNCHANGED config

\* the loop that leaves only once the init queue is empty
AfterLine_DrainsQueue(src, line, m) ==
  IF m.result = "panic" THEN Leave(src, line, m, "panicked")
  ELSE IF m.result = "Err"
    THEN \E h \in ErrorHandlerOutcomes :
           IF h = "Err" THEN Leave(src, line, CallErrorHandler(m, h), "returned_err")
           ELSE Leave(src, line, CallErrorHandler(m, h),
                      IF m.stop_on_ctrl_c /\ init_commands' = <<>>
                      THEN "returned_ok" ELSE "loop")
  ELSE Leave(src, line, m,
             IF m.stop_on_ctrl_c /\ init_commands' = <<>> THEN "returned_ok" ELSE "loop")

\* the loop that goes on whatever the error handler returned
AfterLine_HandlerErrorDropped(src, line, m) ==
  IF m.result = "panic" THEN Leave(src, line, m, "panicked")
  ELSE IF m.result = "Err"
    THEN \E h \in ErrorHandlerOutcomes :
           Leave(src, line, CallErrorHandler(m, h),
                 IF m.stop_on_ctrl_c THEN "returned_ok" ELSE "loop")
  ELSE Leave(src, line, m, IF m.stop_on_ctrl_c THEN "returned_ok" ELSE "loop")

\* if let Err(err) = process_line(line) { (error_handler)(err, self)?; }
\* if self.stop_on_ctrl_c { break; }
AfterLine(src, line, m) ==
  IF m.result = "panic" THEN Leave(src, line, m, "panicked")
  ELSE IF m.result = "Err"
    THEN \E h \in ErrorHandlerOutcomes :
           IF h = "Err" THEN Leave(src, line, CallErrorHandler(m, h), "returned_err")
           ELSE Leave(src, line, CallErrorHandler(m, h),
                      IF m.stop_on_ctrl_c THEN "returned_ok" ELSE "loop")
  ELSE Leave(src, line, m, IF m.stop_on_ctrl_c THEN "returned_ok" ELSE "loop")

\* a signal that never ends the loop
Signal_Ignored(src, break) ==
  /\ pc' = "loop"
  /\ AfterLoop("loop")
  /\ last' = [src |-> src, line |-> <<>>, ev |-> <<>>]
  /\ UNCHANGED << config, stop_on_ctrl_c, init_commands, prompt, context >>

\* a signal that carries no line
Signal(src, break) ==
  /\ pc' = IF break THEN "returned_ok" ELSE "loop"
  /\ AfterLoop(IF break THEN "returned_ok" ELSE "loop")
  /\ last' = [src |-> src, line |-> <<>>, ev |-> <<>>]
  /\ UNCHANGED << config, stop_on_ctrl_c, init_commands, prompt, context >>

RunStart ==
  /\ EnableVirtualTerminalProcessing
  /\ pc = "ready" /\ variant = "run"
  /\ pc' = "loop"
  /\ UNCHANGED << config, stop_on_ctrl_c, init_commands, prompt, context, last >>

RunInitLine ==
  /\ pc = "loop" /\ variant = "run"
  /\ init_commands # <<>>
  /\ init_commands' = SubSeq(init_commands, 1, Len(init_commands) - 1)
  /\ LET line == init_commands[Len(init_commands)]
     IN \E m \in ProcessLine(Begin, line) : AfterLine("init", line, m)

RunReadLine ==
  /\ pc = "loop" /\ variant = "run"
  /\ init_commands = <<>>
  /\ UNCHANGED init_commands
  /\ \E line \in Lines : \E m \in ProcessLine(Begin, line) : AfterLine("editor", line, m)

RunCtrlC ==
  /\ pc = "loop" /\ variant = "run"
  /\ init_commands = <<>>
  /\ Signal("ctrl_c", stop_on_ctrl_c)

RunCtrlD ==
  /\ pc = "loop" /\ variant = "run"
  /\ init_commands = <<>>
  /\ Signal("ctrl_d", stop_on_ctrl_d)

RunAsyncStart ==
  /\ EnableVirtualTerminalProcessing
  /\ pc = "ready" /\ variant = "run_async"
  /\ pc' = "loop"
  /\ UNCHANGED << config, stop_on_ctrl_c, init_commands, prompt, context, last >>

RunAsyncInitLine ==
  /\ pc = "loop" /\ variant = "run_async"
  /\ init_commands # <<>>
  /\ init_commands' = SubSeq(init_commands, 1, Len(init_commands) - 1)
  /\ LET line == init_commands[Len(init_commands)]
     IN \E m \in ProcessLineAsync(Begin, line) : AfterLine("init", line, m)

RunAsyncReadLine ==
  /\ pc = "loop" /\ variant = "run_async"
  /\ init_commands = <<>>
  /\ UNCHANGED init_commands
  /\ \E line \in Lines : \E m \in ProcessLineAsync(Begin, line) : AfterLine("editor", line, m)

RunAsyncCtrlC ==
  /\ pc = "loop" /\ variant = "run_async"
  /\ init_commands = <<>>
  /\ Signal("ctrl_c", stop_on_ctrl_c)

RunAsyncCtrlD ==
  /\ pc = "loop" /\ variant = "run_async"
  /\ init_commands = <<>>
  /\ Signal("ctrl_d", stop_on_ctrl_d)

Next ==
  \/ RunStart \/ RunInitLine \/ RunReadLine \/ RunCtrlC \/ RunCtrlD
  \/ RunAsyncStart \/ RunAsyncInitLine \/ RunAsyncReadLine \/ RunAsyncCtrlC \/ RunAsyncCtrlD

Spec == Init /\ [][Next]_vars

(***************************************************************************)
(* The builder calls that fill the registry, from Repl::new on             *)
(***************************************************************************)
Callbacks == {"f1", "f2"}

\* HashMap::insert
Insert_KeepsOld(map, key, value) ==
  [k \in DOMAIN map \cup {key} |-> IF k \in DOMAIN map THEN map[k] ELSE value]

Insert(map, key, value) ==
  [k \in DOMAIN map \cup {key} |-> IF k = key THEN value ELSE map[k]]

\* Repl::new
InitNew ==
  /\ variant \in {"run", "run_async"}
  /\ commands = <<>>
  /\ after_command_callback = FALSE
  /\ after_command_callback_async = FALSE
  /\ error_handler = "default"
  /\ stop_on_ctrl_c = FALSE
  /\ stop_on_ctrl_d = TRUE
  /\ init_commands = <<>>
  /\ prompt = InitialPrompt
  /\ context = "c0"
  /\ pc = "ready"
  /\ last = [src |-> "none", line |-> <<>>, ev |-> <<>>]
  /\ registered = <<>>
  /\ supplied = <<>>
  /\ step = NoStep
  /\ calls = NoCalls
  /\ comp = NoComp
  /\ param = NoParam
  /\ repl_name = DefaultName
  /\ virtual_terminal_processing = FALSE

WithCommand ==
  /\ pc = "ready"
  /\ Len(registered) < MaxRegs
  /\ \E name \in {CmdA, CmdAA}, f \in Callbacks :
       /\ commands' = Insert(commands, name, [SyncCommand(0, 1) EXCEPT !.id = f])
       /\ registered' = Append(registered, <<name, "sync", f>>)
  /\ UNCHANGED << virtual_terminal_processing, variant, after_command_callback, after_command_callback_async,
                  error_handler, stop_on_ctrl_c, stop_on_ctrl_d, init_commands, prompt,
                  context, pc, last, supplied, step, calls, comp, param, repl_name >>

WithCommandAsync ==
  /\ pc = "ready"
  /\ Len(registered) < MaxRegs
  /\ \E name \in {CmdA, CmdAA}, f \in Callbacks :
       /\ commands' = Insert(commands, name, [AsyncCommand(0, 1) EXCEPT !.id = f])
       /\ registered' = Append(registered, <<name, "async", f>>)
  /\ UNCHANGED << virtual_terminal_processing, variant, after_command_callback, after_command_callback_async,
                  error_handler, stop_on_ctrl_c, stop_on_ctrl_d, init_commands, prompt,
                  context, pc, last, supplied, step, calls, comp, param, repl_name >>

\* no init line is queued: the loop reads the line editor from the start
NextRegistry ==
  \/ WithCommand \/ WithCommandAsync
  \/ RunStart \/ RunReadLine \/ RunCtrlC \/ RunCtrlD
  \/ RunAsyncStart \/ RunAsyncReadLine \/ RunAsyncCtrlC \/ RunAsyncCtrlD

SpecRegistry == InitNew /\ [][NextRegistry]_vars

(***************************************************************************)
(* The builder call that pre-seeds the init queue                          *)
(***************************************************************************)
InitQueue ==
  /\ variant \in {"run", "run_async"}
  /\ commands \in Registries
  /\ after_command_callback = FALSE
  /\ after_command_callback_async = FALSE
  /\ error_handler \in {"default", "custom"}
  /\ stop_on_ctrl_c \in BOOLEAN
  /\ stop_on_ctrl_d = TRUE
  /\ init_commands = <<>>
  /\ prompt = InitialPrompt
  /\ context = "c0"
  /\ pc = "ready"
  /\ last = [src |-> "none", line |-> <<>>, ev |-> <<>>]
  /\ registered = <<>>
  /\ supplied = <<>>
  /\ step = NoStep
  /\ calls = NoCalls
  /\ comp = NoComp
  /\ param = NoParam
  /\ repl_name = DefaultName
  /\ virtual_terminal_processing = FALSE

\* collect the slice, reverse it, store it
WithInitCommands ==
  /\ pc = "ready"
  /\ \E q \in SeqsUpTo(InitLines, MaxInit) :
       /\ supplied' = q
       /\ init_commands' = Reverse(q)
  /\ UNCHANGED << virtual_terminal_processing, variant, commands, after_command_callback, after_command_callback_async,
                  error_handler, stop_on_ctrl_c, stop_on_ctrl_d, prompt, context, pc, last,
                  registered, step, calls, comp, param, repl_name >>

NextQueue == WithInitCommands \/ Next

SpecQueue == InitQueue /\ [][NextQueue]_vars

(***************************************************************************)
(* The builder calls that set the signal policy, from Repl::new on         *)
(***************************************************************************)
InitSignals ==
  /\ variant \in {"run", "run_async"}
  /\ commands \in Registries
  /\ after_command_callback = FALSE
  /\ after_command_callback_async = FALSE
  /\ error_handler = "default"
  /\ stop_on_ctrl_c = FALSE
  /\ stop_on_ctrl_d = TRUE
  /\ init_commands = <<>>
  /\ prompt = InitialPrompt
  /\ context = "c0"
  /\ pc = "ready"
  /\ last = [src |-> "none", line |-> <<>>, ev |-> <<>>]
  /\ registered = <<>>
  /\ supplied = <<>>
  /\ step = NoStep
  /\ calls = NoCalls
  /\ comp = NoComp
  /\ param = NoParam
  /\ repl_name = DefaultName
  /\ virtual_terminal_processing = FALSE

WithStopOnCtrlC ==
  /\ pc = "ready"
  /\ Len(registered) < MaxRegs
  /\ \E b \in BOOLEAN :
       /\ stop_on_ctrl_c' = b
       /\ registered' = Append(registered, <<"with_stop_on_ctrl_c", b>>)
  /\ UNCHANGED << virtual_terminal_processing, variant, commands, after_command_callback, after_command_callback_async,
                  error_handler, stop_on_ctrl_d, init_commands, prompt, context, pc, last,
                  supplied, step, calls, comp, param, repl_name >>

WithStopOnCtrlD ==
  /\ pc = "ready"
  /\ Len(registered) < MaxRegs
  /\ \E b \in BOOLEAN :
       /\ stop_on_ctrl_d' = b
       /\ registered' = Append(registered, <<"with_stop_on_ctrl_d", b>>)
  /\ UNCHANGED << virtual_terminal_processing, variant, commands, after_command_callback, after_command_callback_async,
                  error_handler, stop_on_ctrl_c, init_commands, prompt, context, pc, last,
                  supplied, step, calls, comp, param, repl_name >>

\* no init line is queued: the loop reads the line editor from the start
NextSignals ==
  \/ WithStopOnCtrlC \/ WithStopOnCtrlD
  \/ RunStart \/ RunReadLine \/ RunCtrlC \/ RunCtrlD
  \/ RunAsyncStart \/ RunAsyncReadLine \/ RunAsyncCtrlC \/ RunAsyncCtrlD

SpecSignals == InitSignals /\ [][NextSignals]_vars

(***************************************************************************)
(* The builder calls that set the name and the prompt, from Repl::new on   *)
(***************************************************************************)
HostNames == {<<"x">>, <<"y", "y">>}
HostPrompts == {<<"x", ">", Space>>, <<"$">>}

\* ReplPrompt::update_prefix
UpdatePrefix(prefix) == prefix

WithName ==
  /\ pc = "ready"
  /\ Len(registered) < MaxRegs
  /\ \E n \in HostNames :
       /\ repl_name' = n
       /\ prompt' = UpdatePrefix(n)
       /\ registered' = Append(registered, <<"with_name", n>>)
  /\ UNCHANGED << virtual_terminal_processing, variant, commands, after_command_callback, after_command_callback_async,
                  error_handler, stop_on_ctrl_c, stop_on_ctrl_d, init_commands, context, pc,
                  last, supplied, step, calls, comp, param >>

WithPrompt ==
  /\ pc = "ready"
  /\ Len(registered) < MaxRegs
  /\ \E p \in HostPrompts :
       /\ prompt' = UpdatePrefix(p)
       /\ registered' = Append(registered, <<"with_prompt", p>>)
  /\ UNCHANGED << virtual_terminal_processing, variant, commands, after_command_callback, after_command_callback_async,
                  error_handler, stop_on_ctrl_c, stop_on_ctrl_d, init_commands, context, pc,
                  last, supplied, step, calls, comp, param, repl_name >>

WithFormattedPrompt ==
  /\ pc = "ready"
  /\ Len(registered) < MaxRegs
  /\ \E p \in HostPrompts :
       /\ prompt' = UpdatePrefix(p)
       /\ registered' = Append(registered, <<"with_formatted_prompt", p>>)
  /\ UNCHANGED << virtual_terminal_processing, variant, commands, after_command_callback, after_command_callback_async,
                  error_handler, stop_on_ctrl_c, stop_on_ctrl_d, init_commands, context, pc,
                  last, supplied, step, calls, comp, param, repl_name >>

\* no init line is queued: the loop reads the line editor from the start
NextPrompt ==
  \/ WithName \/ WithPrompt \/ WithFormattedPrompt
  \/ RunStart \/ RunReadLine \/ RunCtrlC \/ RunCtrlD
  \/ RunAsyncStart \/ RunAsyncReadLine \/ RunAsyncCtrlC \/ RunAsyncCtrlD

SpecPrompt == InitSignals /\ [][NextPrompt]_vars

(***************************************************************************)
(* The loop at the grain of the calls it makes into host code: a line is   *)
(* taken, the callback and the hooks of its dispatch are begun and settle  *)
(* one after the other, and only then the loop goes on.  run calls them    *)
(* and run_async awaits them: in both, the statement after a call is       *)
(* reached once the call has returned.                                     *)
(***************************************************************************)
InitAwait ==
  /\ variant \in {"run", "run_async"}
  /\ commands \in Registries
  /\ after_command_callback = TRUE
  /\ after_command_callback_async = TRUE
  /\ error_handler = "default"
  /\ stop_on_ctrl_c = FALSE
  /\ stop_on_ctrl_d = TRUE
  /\ init_commands \in {Reverse(q) : q \in SeqsUpTo(InitLines, MaxInit)}
  /\ prompt = InitialPrompt
  /\ context = "c0"
  /\ pc = "ready"
  /\ last = [src |-> "none", line |-> <<>>, ev |-> <<>>]
  /\ registered = <<>>
  /\ supplied = <<>>
  /\ step = NoStep
  /\ calls = NoCalls
  /\ comp = NoComp
  /\ param = NoParam
  /\ repl_name = DefaultName
  /\ virtual_terminal_processing = FALSE

\* a call into host code, as opposed to a print
IsCall(e) == e[1] \in {"callback", "hook"}

\* a call that is detached: the caller goes on while it runs
Awaited_Detached(running) == TRUE

\* f(..) and f(..).await: the caller goes on once the call has settled
Awaited(running) == running = {}

\* init_commands.pop() or read_line: the loop takes its next line
TakeLine ==
  /\ pc = "loop"
  /\ \E src \in {"init", "editor"}, line \in Lines :
       /\ IF src = "init"
          THEN /\ init_commands # <<>>
               /\ line = init_commands[Len(init_commands)]
               /\ init_commands' = SubSeq(init_commands, 1, Len(init_commands) - 1)
          ELSE /\ init_commands = <<>>
               /\ UNCHANGED init_commands
       /\ \E m \in IF variant = "run" THEN ProcessLine(Begin, line)
                                       ELSE ProcessLineAsync(Begin, line) :
            step' = [src |-> src, line |-> line, m |-> m]
       /\ last' = [src |-> src, line |-> line, ev |-> <<>>]
  /\ calls' = [begun |-> 0, running |-> calls.running]
  /\ pc' = "dispatching"
  /\ UNCHANGED << virtual_terminal_processing, variant, commands, after_command_callback, after_command_callback_async,
                  error_handler, stop_on_ctrl_c, stop_on_ctrl_d, prompt, context,
                  registered, supplied, comp, param, repl_name >>

\* the next statement of the dispatch: a print, or a call that starts running
BeginNext ==
  /\ pc = "dispatching"
  /\ calls.begun < Len(step.m.ev)
  /\ Awaited(calls.running)
  /\ LET e == step.m.ev[calls.begun + 1]
     IN calls' = [begun |-> calls.begun + 1,
                  running |-> IF IsCall(e) THEN calls.running \cup {e} ELSE calls.running]
  /\ UNCHANGED << virtual_terminal_processing, variant, commands, after_command_callback, after_command_callback_async,
                  error_handler, stop_on_ctrl_c, stop_on_ctrl_d, init_commands, prompt,
                  context, pc, last, registered, supplied, step, comp, param, repl_name >>

\* a running call returns
Settle ==
  /\ \E e \in calls.running : calls' = [calls EXCEPT !.running = @ \ {e}]
  /\ UNCHANGED << virtual_terminal_processing, variant, commands, after_command_callback, after_command_callback_async,
                  error_handler, stop_on_ctrl_c, stop_on_ctrl_d, init_commands, prompt,
                  context, pc, last, registered, supplied, step, comp, param, repl_name >>

\* the dispatch has returned to the loop
EndLine ==
  /\ pc = "dispatching"
  /\ calls.begun = Len(step.m.ev)
  /\ Awaited(calls.running)
  /\ UNCHANGED init_commands
  /\ AfterLine(step.src, step.line, step.m)

NextAwait == RunStart \/ RunAsyncStart \/ TakeLine \/ BeginNext \/ Settle \/ EndLine

SpecAwait == InitAwait /\ [][NextAwait]_vars

(***************************************************************************)
(* ReplCompleter                                                           *)
(***************************************************************************)
MaxCompLen == 3   \* length of the enumerated completer lines

Dash == "-"
CompAlphabet == {"a", "h", Space, Dash}

RECURSIVE CompStringsUpTo(_)
CompStringsUpTo(n) ==
  IF n = 0 THEN {<<>>}
  ELSE LET shorter == CompStringsUpTo(n - 1)
       IN shorter \cup {Append(s, c) : s \in {t \in shorter : Len(t) = n - 1},
                                        c \in CompAlphabet}

\* longer buffers of the line editor
CompFixedLines ==
  { <<"h", "e">>, <<"h", "e", "l">>, Help, <<"h", "e", "l", "p", Space>>,
    <<"a", Space, "a", Space>>, <<"a", Space, "a", Space, "h">>,
    <<"a", Space, "a", Space, "a", Space>>, <<"a", Space, Dash, Dash, "a">>,
    <<"a", Space, "h", "a", "a">>, <<"a", "a", Space, Dash, Dash>>,
    <<"h", "e", "l", "p", Space, "a">>, <<"a", Space, Dash, "H">>,
    <<"a", "a", Space, "a", Space, Dash, "a">> }

CompLines == CompStringsUpTo(MaxCompLen) \cup CompFixedLines

\* Option<T>
None == <<>>
Some(x) == <<x>>

\* clap::PossibleValue, clap::Arg, clap::Command
PossibleValue(name, help) == [name |-> name, help |-> help]
Arg(possible_values, long, short, help) ==
  [possible_values |-> possible_values, long |-> long, short |-> short, help |-> help]
ClapCommand(name, about, arguments) ==
  [name |-> name, about |-> about, arguments |-> arguments]

\* a command with two positional parameters, both with allowed values, the
\* second also reachable as --a and -h
ClapA ==
  ClapCommand(CmdA, Some("about a"),
    << Arg(Some(<< PossibleValue(<<"a">>, None), PossibleValue(<<"h">>, Some("h1")) >>),
           None, None, None),
       Arg(Some(<< PossibleValue(<<"h">>, Some("h2")) >>),
           Some(<<"a">>), Some("h"), Some("second")) >>)

\* a command with one flag and no allowed values
ClapAA == ClapCommand(CmdAA, None, << Arg(None, Some(<<"h">>), Some("a"), None) >>)

\* a host command that is named like the built-in
ClapHelp == ClapCommand(Help, None, <<>>)

\* ReplCommand::new(name, command, callback)
ReplCommandOf(command) ==
  [callback |-> TRUE, async_callback |-> FALSE, required |-> 0,
   params |-> Len(command.arguments), id |-> "f", command |-> command]

CompleterRegistries ==
  { <<>>,
    [name \in {CmdA, CmdAA} |-> ReplCommandOf(IF name = CmdA THEN ClapA ELSE ClapAA)],
    [name \in {CmdA, Help} |-> ReplCommandOf(IF name = CmdA THEN ClapA ELSE ClapHelp)] }

\* str::starts_with, str::contains, str::split, String + &str
StartsWith(s, prefix) ==
  Len(prefix) <= Len(s) /\ SubSeq(s, 1, Len(prefix)) = prefix

Contains(s, c) == \E k \in 1..Len(s) : s[k] = c

RECURSIVE Split(_, _)
Split(s, sep) ==
  IF \A k \in 1..Len(s) : s[k] # sep THEN <<s>>
  ELSE LET k == CHOOSE i \in 1..Len(s) : s[i] = sep /\ \A j \in 1..(i - 1) : s[j] # sep
       IN <<SubSeq(s, 1, k - 1)>> \o Split(SubSeq(s, k + 1, Len(s)), sep)

\* Span::new(start, end)
Span(start, end) == [start |-> start, end |-> end]

\* reedline::Suggestion (extra is always None)
Suggestion(value, description, span, append_whitespace) ==
  [value |-> value, description |-> description, span |-> span,
   append_whitespace |-> append_whitespace]

\* Vec::dedup: consecutive equal elements collapse
RECURSIVE Dedup(_)
Dedup(v) ==
  IF Len(v) <= 1 THEN v
  ELSE IF v[Len(v)] = v[Len(v) - 1] THEN Dedup(SubSeq(v, 1, Len(v) - 1))
  ELSE Append(Dedup(SubSeq(v, 1, Len(v) - 1)), v[Len(v)])

\* "--".to_string() + long, with one dash only
LongFlag_OneDash(long) == <<Dash>> \o long

\* "--".to_string() + long
LongFlag(long) == <<Dash, Dash>> \o long

\* "-".to_string() + &short.to_string()
ShortFlag(short) == <<Dash, short>>

\* the suggestions one argument contributes: its allowed values, --long, -short
ArgCompletions(arg, prefix, start, pos) ==
  (IF arg.possible_values # None
   THEN LET matching == SelectSeq(arg.possible_values[1],
                                  LAMBDA value : StartsWith(value.name, prefix))
        IN [k \in 1..Len(matching) |->
              Suggestion(matching[k].name, matching[k].help, Span(start, pos), TRUE)]
   ELSE <<>>)
  \o (IF arg.long # None /\ StartsWith(LongFlag(arg.long[1]), prefix)
      THEN <<Suggestion(LongFlag(arg.long[1]), arg.help, Span(start, pos), TRUE)>>
      ELSE <<>>)
  \o (IF arg.short # None /\ StartsWith(ShortFlag(arg.short[1]), prefix)
      THEN <<Suggestion(ShortFlag(arg.short[1]), arg.help, Span(start, pos), TRUE)>>
      ELSE <<>>)

\* for arg in command.get_arguments() { .. }: the parameter index is not read
RECURSIVE CompletionsOfArgs(_, _, _, _)
CompletionsOfArgs(arguments, prefix, start, pos) ==
  IF arguments = <<>> THEN <<>>
  ELSE ArgCompletions(Head(arguments), prefix, start, pos)
         \o CompletionsOfArgs(Tail(arguments), prefix, start, pos)

ParameterValuesStartingWith(command, parameter_idx, prefix, start, pos) ==
  CompletionsOfArgs(command.arguments, prefix, start, pos)

\* the orders in which a HashMap can iterate over the keys S
Orders(S) ==
  {q \in [1..Cardinality(S) -> S] : \A i, j \in 1..Cardinality(S) : q[i] = q[j] => i = j}

\* the built-in suggestion pushed after the registered commands
BuiltinHelp_TrailingSpace(pos) == Suggestion(Help, Some("show help"), Span(0, pos), TRUE)

BuiltinHelp(pos) == Suggestion(Help, Some("show help"), Span(0, pos), FALSE)

CommandsStartingWith(prefix, pos) ==
  LET matching == {key \in DOMAIN commands : StartsWith(key, prefix)}
  IN { [k \in 1..Len(order) |->
          Suggestion(commands[order[k]].command.name, commands[order[k]].command.about,
                     Span(0, pos), TRUE)]
       \o (IF StartsWith(Help, prefix) THEN <<BuiltinHelp(pos)>> ELSE <<>>)
     : order \in Orders(matching) }

Returns(suggestions) == [panic |-> "", suggestions |-> Dedup(suggestions)]
Panics(msg) == [panic |-> msg, suggestions |-> <<>>]

\* Completer::complete: every result the call can have
Complete(line, pos) ==
  IF Contains(line, Space)
  THEN LET words == Split(SubSeq(line, 1, pos), Space)
           first == words[1]
       IN IF first \in DOMAIN commands
          THEN IF Len(words) = 1 THEN {Panics("unwrap")}
               ELSE LET last_word == words[Len(words)]
                        start == Len(line) - Len(last_word)
                        found == ParameterValuesStartingWith(commands[first].command,
                                   Len(words) - 2, last_word, start, pos)
                    IN IF found # <<>> /\ start > pos
                       THEN {Returns(found), Panics("span")}
                       ELSE {Returns(found)}
          ELSE {Returns(<<>>)}
  ELSE {Returns(suggestions) : suggestions \in CommandsStartingWith(line, pos)}

InitCompleter ==
  /\ variant \in {"run", "run_async"}
  /\ commands \in CompleterRegistries
  /\ after_command_callback = FALSE
  /\ after_command_callback_async = FALSE
  /\ error_handler = "default"
  /\ stop_on_ctrl_c = FALSE
  /\ stop_on_ctrl_d = TRUE
  /\ init_commands = <<>>
  /\ prompt = InitialPrompt
  /\ context = "c0"
  /\ pc = "loop"
  /\ last = [src |-> "none", line |-> <<>>, ev |-> <<>>]
  /\ registered = <<>>
  /\ supplied = <<>>
  /\ step = NoStep
  /\ calls = NoCalls
  /\ \E line \in CompLines : \E pos \in 0..Len(line) :
       comp = [NoComp EXCEPT !.line = line, !.pos = pos]
  /\ param = NoParam
  /\ repl_name = DefaultName
  /\ virtual_terminal_processing = FALSE

\* the line editor asks for the completions of its buffer at the cursor
CompleterComplete ==
  /\ ~comp.done
  /\ \E out \in Complete(comp.line, comp.pos) :
       comp' = [comp EXCEPT !.done = TRUE, !.panic = out.panic,
                            !.suggestions = out.suggestions]
  /\ UNCHANGED << virtual_terminal_processing, variant, commands, after_command_callback, after_command_callback_async,
                  error_handler, stop_on_ctrl_c, stop_on_ctrl_d, init_commands, prompt,
                  context, pc, last, registered, supplied, step, calls, param, repl_name >>

NextCompleter == CompleterComplete

SpecCompleter == InitCompleter /\ [][NextCompleter]_vars

(***************************************************************************)
(* Parameter: the builder of one command parameter                         *)
(***************************************************************************)
ParameterNames == {<<"p">>, <<"q">>}
DefaultValues == {<<"a">>, <<"h">>}
HelpTexts == {"x"}
AllowedValues == {<<"a">>, <<"h">>}

\* Result<Parameter>
Ok(value) == [ok |-> TRUE, value |-> value]
Err(error) == [ok |-> FALSE, error |-> error]

\* Parameter::new
ParameterNew(n) ==
  [name |-> n, required |-> FALSE, allowed_values |-> <<>>, default |-> None,
   help_summary |-> None]

\* set_required without the test of the default
SetRequired_Unchecked(self, required) == Ok([self EXCEPT !.required = required])

SetRequired(self, required) ==
  IF self.default # None THEN Err(<<"IllegalRequiredError", self.name>>)
  ELSE Ok([self EXCEPT !.required = required])

WithHelp(self, help_summary) == [self EXCEPT !.help_summary = Some(help_summary)]

AddAllowedValue(self, allowed_value, help_summary) ==
  [self EXCEPT !.allowed_values = Insert(@, allowed_value, help_summary)]

SetDefault(self, default) ==
  IF self.required THEN Err(<<"IllegalDefaultError", self.name>>)
  ELSE Ok([self EXCEPT !.default = Some(default)])

InitParameter ==
  /\ variant = "run"
  /\ commands = <<>>
  /\ after_command_callback = FALSE
  /\ after_command_callback_async = FALSE
  /\ error_handler = "default"
  /\ stop_on_ctrl_c = FALSE
  /\ stop_on_ctrl_d = TRUE
  /\ init_commands = <<>>
  /\ prompt = InitialPrompt
  /\ context = "c0"
  /\ pc = "ready"
  /\ last = [src |-> "none", line |-> <<>>, ev |-> <<>>]
  /\ registered = <<>>
  /\ supplied = <<>>
  /\ step = NoStep
  /\ calls = NoCalls
  /\ comp = NoComp
  /\ repl_name = DefaultName
  /\ \E n \in ParameterNames :
       param = [self |-> ParameterNew(n), call |-> <<"new", n>>,
                before |-> ParameterNew(n), result |-> <<"Ok">>]
  /\ virtual_terminal_processing = FALSE

\* a builder call takes self by value: after an Err the Parameter is gone
Called(call, returned) ==
  /\ param' = [self |-> IF returned.ok THEN returned.value ELSE param.self,
               call |-> call, before |-> param.self,
               result |-> IF returned.ok THEN <<"Ok">> ELSE returned.error]
  /\ UNCHANGED << virtual_terminal_processing, variant, commands, after_command_callback, after_command_callback_async,
                  error_handler, stop_on_ctrl_c, stop_on_ctrl_d, init_commands, prompt,
                  context, pc, last, registered, supplied, step, calls, comp, repl_name >>

CallSetRequired ==
  /\ param.result = <<"Ok">>
  /\ \E required \in BOOLEAN :
       Called(<<"set_required", required>>, SetRequired(param.self, required))

CallWithHelp ==
  /\ param.result = <<"Ok">>
  /\ \E h \in HelpTexts : Called(<<"with_help", h>>, Ok(WithHelp(param.self, h)))

CallAddAllowedValue ==
  /\ param.result = <<"Ok">>
  /\ \E v \in AllowedValues, h \in {None} \cup {Some(t) : t \in HelpTexts} :
       Called(<<"add_allowed_value", v, h>>, Ok(AddAllowedValue(param.self, v, h)))

CallSetDefault ==
  /\ param.result = <<"Ok">>
  /\ \E d \in DefaultValues : Called(<<"set_default", d>>, SetDefault(param.self, d))

NextParameter == CallSetRequired \/ CallWithHelp \/ CallAddAllowedValue \/ CallSetDefault

SpecParameter == InitParameter /\ [][NextParameter]_vars

(***************************************************************************)
(* Reading the latest loop iteration                                       *)
(***************************************************************************)
LastTook == last.src \in {"init", "editor"}
LastTrimmed == Trim(last.line)
LastNonBlank == LastTook /\ LastTrimmed # <<>>
LastTokenized == LastNonBlank /\ ~ParseLine(LastTrimmed).panic
LastCommand == ParseLine(LastTrimmed).command
LastArgs == ParseLine(LastTrimmed).args
LastResolved == LastTokenized /\ LastCommand \in DOMAIN commands
LastBound == LastResolved /\ TryGetMatches(commands[LastCommand], LastArgs)
LastBindingFailed == LastResolved /\ ~TryGetMatches(commands[LastCommand], LastArgs)
LastBuiltinExit == LastTokenized /\ LastCommand \notin DOMAIN commands /\ LastCommand = Exit
LastUnknown == LastTokenized /\ LastCommand \notin (DOMAIN commands \cup {Help, Exit})

Events(kind) == SelectSeq(last.ev, LAMBDA e : e[1] = kind)
CallbackCalls == Len(Events("callback"))
HandlerCalls == Len(Events("handler"))
HookKinds == [k \in 1..Len(Events("hook")) |-> Events("hook")[k][2]]
HookResults == [k \in 1..Len(Events("hook")) |-> Events("hook")[k][3]]
CallbackErred == \E k \in 1..Len(last.ev) : last.ev[k][1] = "callback" /\ last.ev[k][4] = "err"
HookErred == \E k \in 1..Len(HookResults) : HookResults[k] = "err"
Panicked(msg) == \E k \in 1..Len(last.ev) : last.ev[k][1] = "panic" /\ last.ev[k][2] = msg

\* the hooks the variant in use calls, in the order it calls them
RegisteredHooks ==
  (IF after_command_callback THEN <<"sync">> ELSE <<>>)
  \o (IF variant = "run_async" /\ after_command_callback_async THEN <<"async">> ELSE <<>>)

(***************************************************************************)
(* C1: when a line resolves to a registered command, its arguments bind    *)
(* and its callback returns an error, every registered post-command hook   *)
(* is still invoked exactly once for that line.                            *)
(***************************************************************************)
C1_HookRunsAfterCallbackError ==
  (LastBound /\ CallbackErred) => HookKinds = RegisteredHooks

C3_UnknownCommandError ==
  LastUnknown =>
    /\ HandlerCalls = 1
    /\ Events("handler")[1][2] = <<"UnknownCommand", LastCommand>>
    /\ CallbackCalls = 0
    /\ HookKinds = <<>>

C3_Witness ==
  /\ LastUnknown
  /\ LastCommand = <<"b">>
  /\ HandlerCalls = 1
  /\ after_command_callback

(***************************************************************************)
(* C4: tokenization never fails: no non-blank line, an unterminated double *)
(* quote included, aborts the session at the tokenizing step.              *)
(***************************************************************************)
C4_TokenizationNeverFails ==
  LastNonBlank => (LastTokenized /\ ~Panicked("drain"))

(***************************************************************************)
(* C5: when argument binding fails the callback is not invoked, the error  *)
(* handler is not called and the loop continues with the next line.        *)
(***************************************************************************)
C5_BindingFailureIsSoft ==
  LastBindingFailed => (CallbackCalls = 0 /\ HandlerCalls = 0 /\ pc = "loop")

(***************************************************************************)
(* C6: an error returned by a post-command hook is never propagated: the   *)
(* error handler is not called, the prompt is left as it was by that hook  *)
(* call and the loop continues.                                            *)
(***************************************************************************)
C6_HookErrorSwallowed ==
  [][ (pc = "loop" /\ LastTook' /\ HookErred')
        => /\ HandlerCalls' = 0
           /\ (\A k \in 1..Len(HookResults') : HookResults'[k] # "some") => prompt' = prompt
           /\ pc' = "loop" ]_vars

(***************************************************************************)
(* C7: every dispatch-time error (UnknownCommand or a callback error) is   *)
(* handed to the error handler exactly once, and with the default handler  *)
(* the loop is still reading lines afterwards.                             *)
(***************************************************************************)
C7_ErrorsHandledLoopContinues ==
  (LastUnknown \/ (LastBound /\ CallbackErred)) =>
    /\ HandlerCalls = 1
    /\ error_handler = "default" => pc = "loop"

(***************************************************************************)
(* C8: the only text a dispatched line writes to the output stream is the  *)
(* callback's result: exactly the text for Ok(Some(text)), nothing for     *)
(* Ok(None).                                                               *)
(***************************************************************************)
C8_OnlyCallbackResultPrinted ==
  (LastBound /\ CallbackCalls = 1) =>
    Events("stdout") =
      IF Events("callback")[1][4] = "some" THEN << <<"stdout", "value", CallbackText>> >>
      ELSE <<>>

(***************************************************************************)
(* C9: after the built-in exit is dispatched the run loop terminates once  *)
(* that line has finished: run has returned Ok, no step of the loop is     *)
(* left to take, and the line ran no callback.                             *)
(***************************************************************************)
C9_ExitTerminatesLoop ==
  LastBuiltinExit => (pc = "returned_ok" /\ ~ENABLED Next /\ CallbackCalls = 0)

C9_Witness ==
  /\ LastBuiltinExit
  /\ last.src = "editor"
  /\ pc = "returned_ok"
  /\ error_handler = "default"

(***************************************************************************)
(* C10, as claimed: when exit is dispatched while init lines are still     *)
(* queued, the loop ends only after the queued init lines are processed.   *)
(***************************************************************************)
C10_LoopEndsAfterQueuedInitLines ==
  (LastBuiltinExit /\ last.src = "init" /\ pc = "returned_ok") => init_commands = <<>>

(***************************************************************************)
(* C10, amended: when exit is dispatched from the init queue the loop ends *)
(* right after that line, with the termination flag set whether or not it  *)
(* was set before; the init lines still queued are never processed.        *)
(***************************************************************************)
C10_ExitEndsLoopAtOnce ==
  (LastBuiltinExit /\ last.src = "init") =>
    (pc = "returned_ok" /\ stop_on_ctrl_c /\ ~ENABLED Next)

C10_Witness ==
  /\ LastBuiltinExit
  /\ last.src = "init"
  /\ init_commands # <<>>
  /\ pc = "returned_ok"

(***************************************************************************)
(* C11: registering a command under a name already registered replaces the *)
(* earlier definition: the registry holds, for each name registered, the   *)
(* definition of the latest call for that name and no other, and a         *)
(* dispatch of the name that invokes a callback invokes the callback of    *)
(* that latest call, never an earlier one.                                 *)
(***************************************************************************)
RegistrationsOf(name) == SelectSeq(registered, LAMBDA r : r[1] = name)
LatestRegistration(name) == RegistrationsOf(name)[Len(RegistrationsOf(name))]

C11_ReRegistrationReplaces ==
  /\ DOMAIN commands = {registered[k][1] : k \in 1..Len(registered)}
  /\ \A name \in DOMAIN commands :
       /\ commands[name].id = LatestRegistration(name)[3]
       /\ commands[name].callback = (LatestRegistration(name)[2] = "sync")
       /\ commands[name].async_callback = (LatestRegistration(name)[2] = "async")
  /\ (LastBound /\ CallbackCalls > 0) =>
       /\ CallbackCalls = 1
       /\ Events("callback")[1][5] = LatestRegistration(LastCommand)[3]
       /\ Events("callback")[1][2] = LatestRegistration(LastCommand)[2]

C11_Witness ==
  /\ Len(RegistrationsOf(CmdA)) = 2
  /\ registered[1][3] = "f1"
  /\ registered[2][3] = "f2"
  /\ LastBound /\ LastCommand = CmdA
  /\ CallbackCalls = 1
  /\ Events("callback")[1][5] = "f2"

(***************************************************************************)
(* C12: pre-seeded init lines are dispatched in last-in-first-out order    *)
(* with respect to the sequence the host supplied (the last supplied line  *)
(* is dispatched first), and the line editor is not read until the init    *)
(* queue is empty.                                                         *)
(***************************************************************************)
Dispatched == Len(supplied) - Len(init_commands)
EditorRead == last.src \in {"editor", "ctrl_c", "ctrl_d"}

C12_InitLinesLastInFirstOut ==
  /\ last.src = "init" => last.line = supplied[Len(init_commands) + 1]
  /\ EditorRead => init_commands = <<>>

(***************************************************************************)
(* C12 as the code has it: the init lines are dispatched in the order the  *)
(* host supplied them (the first supplied line is dispatched first): the   *)
(* k-th line taken from the queue is the k-th supplied line, what is still *)
(* queued is the rest of the supplied sequence, and the line editor is not *)
(* read until the init queue is empty.                                     *)
(***************************************************************************)
C12_InitLinesInSuppliedOrder ==
  /\ Dispatched \in 0..Len(supplied)
  /\ \A k \in 1..Len(init_commands) : init_commands[k] = supplied[Len(supplied) + 1 - k]
  /\ last.src = "init" => (Dispatched >= 1 /\ last.line = supplied[Dispatched])
  /\ EditorRead => init_commands = <<>>

C12_Witness ==
  /\ Len(supplied) = 2
  /\ supplied[1] # supplied[2]
  /\ last.src = "init"
  /\ init_commands = <<>>
  /\ last.line = supplied[2]
  /\ pc = "loop"

(***************************************************************************)
(* C13: commands execute one at a time in input order: when the loop has   *)
(* just taken a line, or is about to take one, no callback and no hook of  *)
(* an earlier line is still running; at most one call runs at a time; a    *)
(* hook runs only once the callback of its line has been begun and has     *)
(* settled, and the async hook only once the sync hook has settled; and a  *)
(* line has at most one callback, which precedes its hooks.                *)
(***************************************************************************)
BegunOf(kind) == {k \in 1..calls.begun : step.m.ev[k][1] = kind}
RunningOf(kind) == {e \in calls.running : e[1] = kind}

C13_OneAtATimeInOrder ==
  /\ pc # "dispatching" => calls.running = {}
  /\ (pc = "dispatching" /\ calls.begun = 0) => calls.running = {}
  /\ Cardinality(calls.running) <= 1
  /\ RunningOf("hook") # {} => RunningOf("callback") = {}
  /\ pc = "dispatching" =>
       /\ Cardinality({k \in 1..Len(step.m.ev) : step.m.ev[k][1] = "callback"}) <= 1
       /\ \A h \in BegunOf("hook") : \A c \in 1..Len(step.m.ev) :
            step.m.ev[c][1] = "callback" => c < h
       /\ \A h \in BegunOf("hook") : \A g \in 1..Len(step.m.ev) :
            (step.m.ev[g][1] = "hook" /\ step.m.ev[g][2] = "sync"
               /\ step.m.ev[h][2] = "async") => g < h
  /\ pc = "dispatching" => (last.line = step.line /\ last.ev = <<>>)
  /\ (pc = "loop" /\ LastTook) =>
       (last.line = step.line /\ SubSeq(last.ev, 1, Len(step.m.ev)) = step.m.ev)

C13_Witness ==
  /\ variant = "run_async"
  /\ pc = "dispatching"
  /\ BegunOf("callback") # {}
  /\ RunningOf("hook") # {}
  /\ \E e \in calls.running : e[2] = "async"
  /\ last.src = "init"

(***************************************************************************)
(* C14: for every line that resolves to a registered command and whose     *)
(* arguments bind, exactly one callback of the definition is invoked, in   *)
(* run and in run_async alike; a command registered with an async callback *)
(* only and dispatched by run does not abort the session.                  *)
(***************************************************************************)
C14_ExactlyOneCallback ==
  LastBound => (CallbackCalls = 1 /\ pc # "panicked"
                  /\ ~Panicked("Must be filled for sync commands"))

(***************************************************************************)
(* C15: a line handled by the built-in help never calls the error handler  *)
(* and never runs a post-command hook; with no arguments it lists every    *)
(* registered command exactly once; with an unregistered name it only      *)
(* reports not-found on stderr, returns success, and the loop keeps        *)
(* running.                                                                *)
(***************************************************************************)
LastBuiltinHelp == LastTokenized /\ LastCommand \notin DOMAIN commands /\ LastCommand = Help

C15_HelpIsSoft ==
  LastBuiltinHelp =>
    /\ HandlerCalls = 0
    /\ Events("hook") = <<>>
    /\ LastArgs = <<>> => Events("stdout")[2] = <<"stdout", "help", DOMAIN commands>>
    /\ (LastArgs # <<>> /\ LastArgs[1] \notin DOMAIN commands) =>
         /\ Events("stderr") = << <<"stderr", "help_not_found">> >>
         /\ Len(Events("stdout")) = 1
         /\ pc = "loop"

(***************************************************************************)
(* C16: whatever the registry holds, a command named help or exit          *)
(* included, a line whose command name is exit is handled by the engine    *)
(* and terminates the loop, and a line whose command name is help is       *)
(* handled by the engine and renders help; no registered callback is       *)
(* invoked for either.                                                     *)
(***************************************************************************)
HelpRendered ==
  \E k \in 1..Len(last.ev) :
    last.ev[k][2] \in {"help", "help_command", "help_not_found"}

C16_BuiltinsAlwaysAvailable ==
  /\ (LastTokenized /\ LastCommand = Exit) =>
       (CallbackCalls = 0 /\ stop_on_ctrl_c /\ pc = "returned_ok")
  /\ (LastTokenized /\ LastCommand = Help) =>
       (CallbackCalls = 0 /\ HelpRendered)

(***************************************************************************)
(* What a call of the completer was given and what it returned             *)
(***************************************************************************)
TypedToken == SubSeq(comp.line, 1, comp.pos)
InCommandToken == comp.done /\ ~Contains(TypedToken, Space)
InArgumentPosition == comp.done /\ Contains(TypedToken, Space)
CompWords == Split(TypedToken, Space)
CompFirst == CompWords[1]
PositionalIndex == Len(CompWords) - 2
SuggestedValues == {comp.suggestions[k].value : k \in 1..Len(comp.suggestions)}
IsBuiltinHelp(s) == s.value = Help /\ s.description = Some("show help")
IsFlag(s) == s.value # <<>> /\ Head(s.value) = Dash

(***************************************************************************)
(* C17: when no whitespace precedes the cursor, complete returns exactly   *)
(* the registered command names that start with the typed token, plus      *)
(* help if help starts with it, each name once (also when a command named  *)
(* help is registered) and no other name.                                  *)
(***************************************************************************)
MatchingNames == {name \in DOMAIN commands \cup {Help} : StartsWith(name, TypedToken)}

C17_CommandNamesEachOnce ==
  InCommandToken =>
    /\ comp.panic = ""
    /\ SuggestedValues = MatchingNames
    /\ Len(comp.suggestions) = Cardinality(MatchingNames)

(***************************************************************************)
(* C18: every suggestion returned for the command-name token, the built-in *)
(* help suggestion included, has the span 0..cursor and asks for a         *)
(* trailing space.                                                         *)
(***************************************************************************)
C18_AllAppendTrailingSpace ==
  InCommandToken =>
    \A k \in 1..Len(comp.suggestions) :
      /\ comp.suggestions[k].span = [start |-> 0, end |-> comp.pos]
      /\ comp.suggestions[k].append_whitespace

(***************************************************************************)
(* C18 as the code has it: every suggestion returned for the command-name  *)
(* token has the span 0..cursor; the suggestions of registered commands    *)
(* ask for a trailing space, the built-in help suggestion does not.        *)
(***************************************************************************)
C18_BuiltinHelpWithoutTrailingSpace ==
  InCommandToken =>
    \A k \in 1..Len(comp.suggestions) :
      /\ comp.suggestions[k].span = [start |-> 0, end |-> comp.pos]
      /\ comp.suggestions[k].append_whitespace = ~IsBuiltinHelp(comp.suggestions[k])

C18_Witness ==
  /\ InCommandToken
  /\ comp.pos >= 1
  /\ \E i, j \in 1..Len(comp.suggestions) :
       /\ comp.suggestions[i].append_whitespace
       /\ IsBuiltinHelp(comp.suggestions[j])
       /\ ~comp.suggestions[j].append_whitespace

(***************************************************************************)
(* C19: complete is total: for every line and every cursor position from 0 *)
(* to the line length it returns a suggestion sequence without failing,    *)
(* also when the cursor lies before the first space of a line that         *)
(* contains a space; in argument position, when the first token is not a   *)
(* registered command, the result is empty.                                *)
(***************************************************************************)
C19_CompleteIsTotal ==
  comp.done =>
    /\ comp.panic = ""
    /\ (InArgumentPosition /\ CompFirst \notin DOMAIN commands) => comp.suggestions = <<>>

(***************************************************************************)
(* C20: in argument position the value suggestions come only from the      *)
(* allowed values of the parameter at the positional index (the number of  *)
(* completed tokens after the command name); when the index exceeds the    *)
(* number of parameters there is no value suggestion.                      *)
(***************************************************************************)
ParameterAt(index) == commands[CompFirst].command.arguments[index + 1]

C20_ValuesOfIndexedParameterOnly ==
  (InArgumentPosition /\ comp.panic = "" /\ CompFirst \in DOMAIN commands) =>
    \A k \in 1..Len(comp.suggestions) :
      IsFlag(comp.suggestions[k])
      \/ /\ PositionalIndex < Len(commands[CompFirst].command.arguments)
         /\ ParameterAt(PositionalIndex).possible_values # None
         /\ \E v \in 1..Len(ParameterAt(PositionalIndex).possible_values[1]) :
              /\ ParameterAt(PositionalIndex).possible_values[1][v].name
                   = comp.suggestions[k].value
              /\ ParameterAt(PositionalIndex).possible_values[1][v].help
                   = comp.suggestions[k].description

(***************************************************************************)
(* C21: in argument position after a registered command, when complete     *)
(* returns, the flag suggestions are exactly the long (--name) and short   *)
(* (-x) flags of that command whose spelling starts with the trailing      *)
(* partial token, compared character by character (case-sensitively),     *)
(* each with the help text of its parameter.                               *)
(***************************************************************************)
TrailingToken == CompWords[Len(CompWords)]
ArgumentsOf(name) == commands[name].command.arguments
FlagsOf(name) ==
  {[value |-> <<"-", "-">> \o ArgumentsOf(name)[k].long[1], description |-> ArgumentsOf(name)[k].help]
     : k \in {i \in 1..Len(ArgumentsOf(name)) : ArgumentsOf(name)[i].long # None}}
  \cup
  {[value |-> <<"-", ArgumentsOf(name)[k].short[1]>>, description |-> ArgumentsOf(name)[k].help]
     : k \in {i \in 1..Len(ArgumentsOf(name)) : ArgumentsOf(name)[i].short # None}}
IsPrefixOf(prefix, s) ==
  Len(prefix) <= Len(s) /\ \A k \in 1..Len(prefix) : prefix[k] = s[k]
FlagSuggestions ==
  {[value |-> comp.suggestions[k].value, description |-> comp.suggestions[k].description]
     : k \in {i \in 1..Len(comp.suggestions) : IsFlag(comp.suggestions[i])}}

C21_FlagsMatchingTrailingToken ==
  (InArgumentPosition /\ comp.panic = "" /\ CompFirst \in DOMAIN commands) =>
    /\ FlagSuggestions = {f \in FlagsOf(CompFirst) : IsPrefixOf(TrailingToken, f.value)}
    /\ \A i, j \in 1..Len(comp.suggestions) :
         (IsFlag(comp.suggestions[i]) /\ comp.suggestions[i].value = comp.suggestions[j].value)
           => i = j

C21_Witness ==
  /\ InArgumentPosition /\ comp.panic = ""
  /\ comp.line = <<"a", Space, Dash, Dash, "a">> /\ comp.pos = 5
  /\ Len(comp.suggestions) = 1
  /\ comp.suggestions[1].value = <<Dash, Dash, "a">>

(***************************************************************************)
(* C22: set_required on a Parameter that already has a default returns     *)
(* IllegalRequiredError naming the parameter; set_default on a required    *)
(* Parameter returns IllegalDefaultError naming the parameter; the error   *)
(* is the return value of the very call; and a Parameter that came out of  *)
(* successful builder calls is never both required and with a default.     *)
(***************************************************************************)
C22_RequiredAndDefaultExclusive ==
  /\ (param.call[1] = "set_required" /\ param.before.default # <<>>) =>
       param.result = <<"IllegalRequiredError", param.before.name>>
  /\ (param.call[1] = "set_default" /\ param.before.required) =>
       param.result = <<"IllegalDefaultError", param.before.name>>
  /\ param.result = <<"Ok">> => ~(param.self.required /\ param.self.default # <<>>)
  /\ param.result # <<"Ok">> =>
       (param.self = param.before /\ ~ENABLED NextParameter)

C22_Witness ==
  /\ param.call = <<"set_required", TRUE>>
  /\ param.before.default = <<<<"a">>>>
  /\ param.before.allowed_values # <<>>
  /\ param.result = <<"IllegalRequiredError", <<"p">>>>

(***************************************************************************)
(* C23: the prompt changes at most once per processed line and only        *)
(* through a post-command hook that returns a new prompt: a line for which *)
(* no hook returned a prompt (no hook registered, none run, or none        *)
(* returning one) leaves the prompt as it was; also in run_async with both *)
(* a sync and an async hook registered.                                    *)
(***************************************************************************)
PromptWrites == Cardinality({k \in 1..Len(HookResults) : HookResults[k] = "some"})

C23_PromptChangesAtMostOnce ==
  [][ (pc = "loop" /\ LastTook')
        => /\ PromptWrites' <= 1
           /\ PromptWrites' = 0 => prompt' = prompt ]_vars

(***************************************************************************)
(* C24: an interrupt ends the loop if and only if stop-on-interrupt is     *)
(* configured (by default it is not), end-of-input ends the loop if and    *)
(* only if stop-on-end-of-input is configured (by default it is); a signal *)
(* that is ignored dispatches nothing and leaves Context, prompt, flags    *)
(* and init queue as they were.                                            *)
(***************************************************************************)
PolicyCalls(call) == SelectSeq(registered, LAMBDA r : r[1] = call)
Configured(call, default) ==
  IF PolicyCalls(call) = <<>> THEN default
  ELSE PolicyCalls(call)[Len(PolicyCalls(call))][2]

SignalIgnored ==
  /\ pc' = "loop"
  /\ last'.line = <<>> /\ last'.ev = <<>>
  /\ UNCHANGED << context, prompt, stop_on_ctrl_c, stop_on_ctrl_d, init_commands >>

C24_SignalsFollowPolicy ==
  [][ /\ (pc = "loop" /\ last'.src = "ctrl_c") =>
           IF Configured("with_stop_on_ctrl_c", FALSE)
           THEN pc' = "returned_ok" ELSE SignalIgnored
      /\ (pc = "loop" /\ last'.src = "ctrl_d") =>
           IF Configured("with_stop_on_ctrl_d", TRUE)
           THEN pc' = "returned_ok" ELSE SignalIgnored ]_vars

C24_Witness ==
  /\ last.src = "ctrl_d"
  /\ pc = "loop"
  /\ registered = << <<"with_stop_on_ctrl_c", TRUE>>, <<"with_stop_on_ctrl_d", FALSE>> >>

(***************************************************************************)
(* C25: an empty or whitespace-only line is ignored: nothing is tokenized  *)
(* or dispatched (the trace of the line is empty: no print, no callback,   *)
(* no hook, no error handler call, no panic), and Context, prompt and      *)
(* termination flag are unchanged.                                         *)
(***************************************************************************)
IsBlank(line) == \A k \in 1..Len(line) : line[k] = Space

C25_BlankLineIgnored ==
  [][ (pc = "loop" /\ LastTook' /\ IsBlank(last'.line))
        => /\ last'.ev = <<>>
           /\ pc' \in {"loop", "returned_ok"}
           /\ UNCHANGED << context, prompt, stop_on_ctrl_c, stop_on_ctrl_d >> ]_vars

C25_Witness ==
  /\ last.src = "editor"
  /\ last.line = <<Space, Space>>
  /\ last.ev = <<>>
  /\ pc = "loop"
  /\ context = "c1"

(***************************************************************************)
(* C26: when the host configured a name and no explicit prompt, the prompt *)
(* shown for the first read is the name followed by '>' and a space.       *)
(***************************************************************************)
FirstReadDue == pc = "loop" /\ last.src = "none" /\ init_commands = <<>>

C26_PromptDerivedFromName ==
  (FirstReadDue /\ PolicyCalls("with_name") # <<>>
     /\ PolicyCalls("with_prompt") = <<>> /\ PolicyCalls("with_formatted_prompt") = <<>>)
    => prompt = repl_name \o <<">", Space>>

(***************************************************************************)
(* C27: a line never ends the loop unless it dispatched the built-in exit: *)
(* for every configuration, stop-on-interrupt = true included, after an    *)
(* ordinary line (successful, failing, unknown or blank) whose error, if   *)
(* any, the handler accepted, the loop is still running; and dispatching   *)
(* exit leaves the configured interrupt policy (stop_on_ctrl_c) as it was. *)
(***************************************************************************)
HandlerRefused ==
  \E k \in 1..Len(last.ev) : last.ev[k][1] = "handler" /\ last.ev[k][3] = "Err"

C27_OnlyExitEndsLoop ==
  [][ /\ (pc = "loop" /\ LastTook' /\ ~LastBuiltinExit' /\ ~HandlerRefused' /\ pc' # "panicked")
           => pc' = "loop"
      /\ (pc = "loop" /\ LastTook' /\ LastBuiltinExit')
           => stop_on_ctrl_c' = stop_on_ctrl_c ]_vars

(***************************************************************************)
(* C28: when the error handler returns an error for a dispatch-time error, *)
(* run / run_async returns at once with an error: the handler call is the  *)
(* last thing done for the line (no callback or hook after it), the        *)
(* handler was called once, and no further step is taken: lines still in   *)
(* the init queue stay there and the editor is not read again.  The run    *)
(* entry point returns an error in no other case.                          *)
(***************************************************************************)
C28_HandlerErrorReturnsAtOnce ==
  /\ HandlerRefused =>
       /\ pc = "returned_err"
       /\ HandlerCalls = 1
       /\ last.ev[Len(last.ev)][1] = "handler"
       /\ last.ev[Len(last.ev)][2] \in {CallbackError, <<"UnknownCommand", LastCommand>>}
       /\ ~ENABLED Next
  /\ pc = "returned_err" => HandlerRefused

C28_Witness ==
  /\ HandlerRefused
  /\ pc = "returned_err"
  /\ last.src = "init"
  /\ init_commands # <<>>
  /\ CallbackErred

\* how a line resolves: "help", "exit" (the built-ins), "unknown", or "other"
Resolution(line) ==
  LET parsed == ParseLine(Trim(line))
  IN IF Trim(line) = <<>> \/ parsed.panic \/ parsed.command \in DOMAIN commands THEN "other"
     ELSE IF parsed.command = Help THEN "help"
     ELSE IF parsed.command = Exit THEN "exit"
     ELSE "unknown"

(***************************************************************************)
(* C29: a line dispatched to the built-in help, to the built-in exit or as *)
(* an unknown command leaves Context and prompt unchanged and runs no      *)
(* callback and no hook; exit sets the termination flag, help and an       *)
(* unknown command leave it as it was.                                     *)
(***************************************************************************)
C29_BuiltinsFrame ==
  [][ (pc = "loop" /\ last'.src \in {"init", "editor"} /\ Resolution(last'.line) # "other")
        => /\ context' = context
           /\ prompt' = prompt
           /\ \A k \in 1..Len(last'.ev) : last'.ev[k][1] \notin {"callback", "hook"}
           /\ stop_on_ctrl_c' = (stop_on_ctrl_c \/ Resolution(last'.line) = "exit") ]_vars

C29_Witness ==
  /\ LastBuiltinHelp
  /\ context = "c1"
  /\ prompt = HookPrompt
  /\ ~stop_on_ctrl_c
  /\ pc = "loop"

(***************************************************************************)
(* C30: the sequence returned by complete holds no two adjacent            *)
(* suggestions with the same text, also when two parameters of a command   *)
(* declare the same allowed value with different help texts.               *)
(***************************************************************************)
C30_NoAdjacentSameText ==
  (comp.done /\ comp.panic = "") =>
    \A k \in 1..(Len(comp.suggestions) - 1) :
      comp.suggestions[k].value # comp.suggestions[k + 1].value

(***************************************************************************)
(* C31: every suggestion returned by complete has a well-formed            *)
(* replacement span, start <= end <= length of the line, and in argument   *)
(* position the span covers exactly the trailing partial token that ends   *)
(* at the cursor, also when text follows the cursor.                       *)
(***************************************************************************)
C31_SpanCoversTrailingToken ==
  (comp.done /\ comp.panic = "") =>
    \A k \in 1..Len(comp.suggestions) :
      LET span == comp.suggestions[k].span
      IN /\ span.start <= span.end
         /\ span.end <= Len(comp.line)
         /\ InArgumentPosition =>
              /\ span.start = comp.pos - Len(TrailingToken)
              /\ span.end = comp.pos

(***************************************************************************)
(* C32: virtual terminal processing, switched on when run or run_async is  *)
(* entered, is switched off again on every path that leaves them,          *)
(* including the path where the error handler returns an error.            *)
(***************************************************************************)
C32_ReleasedOnEveryExit ==
  pc \in {"returned_ok", "returned_err", "panicked"} => ~virtual_terminal_processing

====
